---- MODULE Spec2Model ----
(***************************************************************************)
(* Model of the component-tree reordering of src/App/ShapeBase.py          *)
(* (FreeCAD Rocket workbench): ShapeBase.moveUp, ShapeBase.moveDown and    *)
(* the internal _moveChildUp / _moveChildDown they delegate to.            *)
(*                                                                         *)
(* A component is one node: the document object (its Group list, its       *)
(* addObject) and the proxy attached to it (Type, _parent, eligibleChild)  *)
(* are modelled as one entity, as the source reaches each from the other   *)
(* (obj.Proxy, self._obj).  Group is an ordered list edited in place:      *)
(* pop(i) removes position i, addObject appends, insert(i, x) inserts      *)
(* before position i.  eligibleChild is the polymorphic predicate keyed on *)
(* the type tag; the overrides of the derived classes are an input of the  *)
(* model (the relation `accepts`), the base class being the empty one.     *)
(* For the two move operations every node has a Group (an empty one for a  *)
(* leaf): a node without the attribute behaves there as one whose Group is *)
(* empty, the loop body never running in either case.  getPrevious and     *)
(* getNext tell the two apart (hasattr), so the specification of the       *)
(* navigation draws `hasGroup` freely for the leaves.                      *)
(***************************************************************************)
EXTENDS Integers, Sequences, FiniteSets, TLC

\* Number of components in the document.
NumNodes == 5

\* Number of moveUp/moveDown calls made in one run.
MaxCalls == 3

Nodes == 1..NumNodes

\* `self._parent = None`: the absent parent of a root.
None == 0

\* Type tags the derived classes store in self.Type.
Types == {"Stage", "Fin"}

VARIABLES
    Type,       \* Type[n]: the type tag of node n (self.Type)
    accepts,    \* <<T, t>> \in accepts: a node of type T answers eligibleChild(t) with True
    parent,     \* parent[n]: self._parent of node n, or None
    Group,      \* Group[n]: self._obj.Group of node n, the ordered children
    status,     \* how the last call ended: "ok" returned, "raise" raised, "hang" never returns
    lastOp,     \* the last call: "none", "moveUp" or "moveDown"
    lastNode,   \* the node the last call was made on
    oldParent,  \* parent as it was when the last call started
    oldGroup,   \* Group as it was when the last call started
    calls,      \* the number of calls made so far
    hasGroup,   \* hasGroup[n]: hasattr(self._obj, "Group") of node n
    lastRef,    \* the reference passed to the last getPrevious/getNext (None: no argument)
    result      \* what the last getPrevious/getNext returned (None: absent)

vars == <<Type, accepts, parent, Group, status, lastOp, lastNode, oldParent, oldGroup, calls,
          hasGroup, lastRef, result>>

----------------------------------------------------------------------------
\* Helpers on Python lists (indexes are Python's, 0-based).

\* list[i]
At(seq, i) == seq[i + 1]

\* list.pop(i) for 0 <= i < len(list): the list without position i
Pop(seq, i) == [j \in 1..(Len(seq) - 1) |-> IF j <= i THEN seq[j] ELSE seq[j + 1]]

\* list.insert(i, x): x is placed before position i (at the end when i >= len)
Insert(seq, i, x) ==
    LET k == IF i > Len(seq) THEN Len(seq) ELSE i
    IN  [j \in 1..(Len(seq) + 1) |->
            IF j <= k THEN seq[j] ELSE IF j = k + 1 THEN x ELSE seq[j - 1]]

\* the elements of a list
Range(seq) == {seq[i] : i \in 1..Len(seq)}

\* the position (0-based) of the first occurrence of x in list, -1 when absent
FirstIndex(seq, x) ==
    IF x \in Range(seq)
    THEN (CHOOSE i \in 1..Len(seq) : seq[i] = x /\ \A j \in 1..(i - 1) : seq[j] # x) - 1
    ELSE -1

----------------------------------------------------------------------------
\* an eligibility that accepts every type
eligibleChild_Any(n, childType) == TRUE

\* ShapeBase.eligibleChild as overridden by the class of node n.
eligibleChild(n, childType) == <<Type[n], childType>> \in accepts

\* ShapeBase.setParent
setParent(par, n, p) == [par EXCEPT ![n] = p]

\* obj.addObject(child): append to the Group
addObject(grp, p, n) == [grp EXCEPT ![p] = Append(@, n)]

\* FirstEligible with the walk stopping at the top of the chain: the node
\* without a parent is returned whether it accepts the type or not.
RECURSIVE FirstEligible_OrTop(_, _, _, _)
FirstEligible_OrTop(par, p, t, seen) ==
    IF p = None THEN None
    ELSE IF eligibleChild(p, t) \/ par[p] = None THEN p
    ELSE IF p \in seen THEN -1
    ELSE FirstEligible_OrTop(par, par[p], t, seen \cup {p})

\* The walk `while parent is not None: if parent.Proxy.eligibleChild(...) ...;
\* parent = parent._parent`.  The result is the first accepting node, None when
\* the chain ends without one, and -1 when the chain of parent pointers closes
\* on itself without an accepting node (the loop never ends).
RECURSIVE FirstEligible(_, _, _, _)
FirstEligible(par, p, t, seen) ==
    IF p = None THEN None
    ELSE IF eligibleChild(p, t) THEN p
    ELSE IF p \in seen THEN -1
    ELSE FirstEligible(par, par[p], t, seen \cup {p})

----------------------------------------------------------------------------
\* A call works on the pair of maps (parent, Group) and ends in one of three
\* ways; the record below is the tree together with the way the call ended.
Tree(par, grp) == [parent |-> par, Group |-> grp, status |-> "ok"]

\* An exception leaves the tree as the completed steps made it.
Raised(s) == [s EXCEPT !.status = "raise"]

\* A loop that never ends leaves the caller waiting for ever.
Hung(s) == [s EXCEPT !.status = "hang"]

\* SwapUp without `group[index] = temp`.
SwapUp_Lost(seq, index, obj) ==
    [k \in 1..Len(seq) |-> IF k = index THEN obj ELSE seq[k]]

\* `group[index - 1] = obj; group[index] = temp` with temp the former
\* group[index - 1] (lines 189-193).
SwapUp(seq, index, obj) ==
    [k \in 1..Len(seq) |->
        IF k = index + 1 THEN seq[index] ELSE IF k = index THEN obj ELSE seq[k]]

\* SwapDown without `group[index] = temp`.
SwapDown_Lost(seq, index, obj) ==
    [k \in 1..Len(seq) |-> IF k = index + 2 THEN obj ELSE seq[k]]

\* `group[index + 1] = obj; group[index] = temp` with temp the former
\* group[index + 1] (lines 248-252).
SwapDown(seq, index, obj) ==
    [k \in 1..Len(seq) |->
        IF k = index + 1 THEN seq[index + 2] ELSE IF k = index + 2 THEN obj ELSE seq[k]]

\* AddToGrandparent inserting after the former parent instead of before it.
AddToGrandparent_After(s, self, gp, j, obj) ==
    LET G1 == [s.Group EXCEPT ![self] = Pop(@, 0)]
    IN  [s EXCEPT !.Group = [G1 EXCEPT ![gp] = Insert(@, j + 1, obj)]]

\* "Add to grandparent" (lines 205-209): obj leaves the front of self's Group
\* and is inserted in the grandparent's Group before position j.  The parent
\* pointer of obj is not touched.
AddToGrandparent(s, self, gp, j, obj) ==
    LET G1 == [s.Group EXCEPT ![self] = Pop(@, 0)]
    IN  [s EXCEPT !.Group = [G1 EXCEPT ![gp] = Insert(@, j, obj)]]

\* AddToAncestorUp without the pop(0): obj stays in self's Group as well.
AddToAncestorUp_NoPop(s, self, anc, obj) ==
    [s EXCEPT !.parent = setParent(s.parent, obj, anc),
              !.Group = addObject(s.Group, anc, obj)]

\* Lines 217-219 of _moveChildUp: pop(0), setParent, addObject.
AddToAncestorUp(s, self, anc, obj) ==
    LET G1 == [s.Group EXCEPT ![self] = Pop(@, 0)]
    IN  [s EXCEPT !.parent = setParent(s.parent, obj, anc),
                  !.Group = addObject(G1, anc, obj)]

\* AddToPrevious without the setParent.
AddToPrevious_NoParent(s, self, index, obj) ==
    LET G1 == [s.Group EXCEPT ![self] = Pop(@, index)]
        par == At(G1[self], index - 1)
    IN  [s EXCEPT !.Group = addObject(G1, par, obj)]

\* "Add to previous" (lines 182-185): pop(index), the new parent is
\* Group[index - 1], setParent, addObject.
AddToPrevious(s, self, index, obj) ==
    LET G1 == [s.Group EXCEPT ![self] = Pop(@, index)]
        par == At(G1[self], index - 1)
    IN  [s EXCEPT !.parent = setParent(s.parent, obj, par),
                  !.Group = addObject(G1, par, obj)]

\* ShapeBase._moveChildUp(self, obj), lines 171-226.  UpLoop is the loop
\* `for child in self._obj.Group` at the iterator position `it` (1-based) with
\* the counter `index` (Python's, 0-based); the list is the one being edited,
\* so the loop goes on over the edited list after "Add to previous", which does
\* not return.  `seen` holds the calls of the current chain of recursive calls:
\* a call that repeats one of them recurses for ever (RecursionError).
RECURSIVE moveChildUp(_, _, _, _)
RECURSIVE UpLoop(_, _, _, _, _, _)

\* lines 224-226
UpTail(s, self, seen) ==
    IF s.parent[self] # None THEN moveChildUp(s, s.parent[self], self, seen) ELSE s

\* lines 178-194: obj found at a counter index > 0
UpNotFirst(s, self, obj, it, index, seen) ==
    LET grp == s.Group[self]
    IN  IF index - 1 >= Len(grp) THEN Raised(s)
        ELSE IF eligibleChild(At(grp, index - 1), Type[obj])
        THEN IF index >= Len(grp) THEN Raised(s)
             ELSE UpLoop(AddToPrevious(s, self, index, obj), self, obj, it + 1, index + 1, seen)
        ELSE IF index >= Len(grp)
             THEN Raised([s EXCEPT !.Group[self] = [grp EXCEPT ![index] = obj]])
             ELSE [s EXCEPT !.Group[self] = SwapUp(grp, index, obj)]

\* lines 195-221: obj found at counter index 0
UpFirst(s, self, obj, it, seen) ==
    LET gp == s.parent[self]
        t == Type[obj]
    IN  IF gp # None /\ eligibleChild(gp, t) /\ self \in Range(s.Group[gp])
        THEN AddToGrandparent(s, self, gp, FirstIndex(s.Group[gp], self), obj)
        ELSE LET anc == FirstEligible(s.parent, gp, t, {})
                 index == IF gp # None THEN Len(s.Group[gp]) ELSE 0
             IN  IF anc = -1 THEN Hung(s)
                 ELSE IF anc # None THEN AddToAncestorUp(s, self, anc, obj)
                 ELSE UpLoop(s, self, obj, it + 1, index + 1, seen)

UpLoop(s, self, obj, it, index, seen) ==
    IF it > Len(s.Group[self]) THEN UpTail(s, self, seen)
    ELSE IF s.Group[self][it] # obj THEN UpLoop(s, self, obj, it + 1, index + 1, seen)
    ELSE IF index > 0 THEN UpNotFirst(s, self, obj, it, index, seen)
    ELSE UpFirst(s, self, obj, it, seen)

moveChildUp(s, self, obj, seen) ==
    LET call == <<self, obj, s.parent, s.Group>>
    IN  IF call \in seen THEN Raised(s)
        ELSE UpLoop(s, self, obj, 1, 0, seen \cup {call})

\* Lines 258-260 of _moveChildDown: pop(0), setParent, addObject.
AddToAncestorDown(s, self, anc, obj) ==
    LET G1 == [s.Group EXCEPT ![self] = Pop(@, 0)]
    IN  [s EXCEPT !.parent = setParent(s.parent, obj, anc),
                  !.Group = addObject(G1, anc, obj)]

\* _moveChildDown without its fallback: nothing is done when no ancestor
\* accepts.
DownTail_Skipped(s, self) == s

\* lines 265-267: the fallback of _moveChildDown calls _moveChildUp
DownTail(s, self) ==
    IF s.parent[self] # None THEN moveChildUp(s, s.parent[self], self, {}) ELSE s

\* ShapeBase._moveChildDown(self, obj), lines 237-267.  The loop edits nothing
\* before it returns, so it acts at the first position of obj in the Group:
\* before the last position it swaps and returns, at the last position it walks
\* up the parent pointers, and when nothing returned the fallback runs.
moveChildDown(s, self, obj) ==
    LET grp == s.Group[self]
        index == FirstIndex(grp, obj)
        last == Len(grp) - 1
    IN  IF index = -1 THEN DownTail(s, self)
        ELSE IF index < last THEN [s EXCEPT !.Group[self] = SwapDown(grp, index, obj)]
        ELSE LET anc == FirstEligible(s.parent, s.parent[self], Type[obj], {})
             IN  IF anc = -1 THEN Hung(s)
                 ELSE IF anc # None THEN AddToAncestorDown(s, self, anc, obj)
                 ELSE DownTail(s, self)

\* moveUp without the test of line 165: on a root, self._parent is None and
\* the call ends in an AttributeError.
moveUp_Unguarded(s, n) ==
    IF s.parent[n] # None THEN moveChildUp(s, s.parent[n], n, {}) ELSE Raised(s)

\* ShapeBase.moveUp, lines 162-169
moveUp(s, n) == IF s.parent[n] # None THEN moveChildUp(s, s.parent[n], n, {}) ELSE s

\* moveDown dispatched twice: the node is moved down a second time from where
\* the first move left it.
moveDown_Twice(s, n) ==
    IF s.parent[n] = None THEN s
    ELSE LET s1 == moveChildDown(s, s.parent[n], n)
         IN  IF s1.status = "ok" THEN moveChildDown(s1, s1.parent[n], n) ELSE s1

\* ShapeBase.moveDown, lines 228-235
moveDown(s, n) == IF s.parent[n] # None THEN moveChildDown(s, s.parent[n], n) ELSE s

----------------------------------------------------------------------------
\* Axis navigation, lines 75-114.

\* Lines 84-88: the loop of getPrevious over the Group of self.  The first
\* position index > 0 holding obj returns Group[index - 1]; a match at
\* position 0 returns nothing and the loop goes on; after the loop the node
\* itself is returned.
getPreviousScan(grp, self, obj) ==
    LET hits == {i \in 1..(Len(grp[self]) - 1) : At(grp[self], i) = obj}
    IN  IF hits = {} THEN self
        ELSE At(grp[self], (CHOOSE i \in hits : \A j \in hits : i <= j) - 1)

\* getNext scanning from the position after the reference's own: the item two
\* places on is returned.
getNextScan_Skip(grp, self, obj) ==
    LET hits == {i \in 0..(Len(grp[self]) - 3) : At(grp[self], i) = obj}
    IN  IF hits = {} THEN self
        ELSE At(grp[self], (CHOOSE i \in hits : \A j \in hits : i <= j) + 2)

\* getNext answering absent (None) at the boundary: nothing is returned after
\* the loop.
getNextScan_Absent(grp, self, obj) ==
    LET hits == {i \in 0..(Len(grp[self]) - 2) : At(grp[self], i) = obj}
    IN  IF hits = {} THEN None
        ELSE At(grp[self], (CHOOSE i \in hits : \A j \in hits : i <= j) + 1)

\* Lines 105-109: the loop of getNext.  The first position index < len - 1
\* holding obj returns Group[index + 1]; after the loop the node itself is
\* returned.
getNextScan(grp, self, obj) ==
    LET hits == {i \in 0..(Len(grp[self]) - 2) : At(grp[self], i) = obj}
    IN  IF hits = {} THEN self
        ELSE At(grp[self], (CHOOSE i \in hits : \A j \in hits : i <= j) + 1)

\* ShapeBase.getPrevious(self, obj), lines 75-93
RECURSIVE getPrevious(_, _, _, _, _)
getPrevious(par, grp, hg, self, obj) ==
    IF obj = None
    THEN IF par[self] # None THEN getPrevious(par, grp, hg, par[self], self) ELSE None
    ELSE IF hg[self] THEN getPreviousScan(grp, self, obj)
    ELSE IF par[self] # None THEN getPrevious(par, grp, hg, par[self], obj)
    ELSE None

\* ShapeBase.getNext(self, obj), lines 95-114
RECURSIVE getNext(_, _, _, _, _)
getNext(par, grp, hg, self, obj) ==
    IF obj = None
    THEN IF par[self] # None THEN getNext(par, grp, hg, par[self], self) ELSE None
    ELSE IF hg[self] THEN getNextScan(grp, self, obj)
    ELSE IF par[self] # None THEN getNext(par, grp, hg, par[self], obj)
    ELSE None

----------------------------------------------------------------------------
\* The starting trees: node 1 is the root and the nodes are numbered in
\* preorder, so that every shape of ordered tree occurs once; the types of the
\* nodes and the eligibility relation are free.

RECURSIVE IsAncestor(_, _, _)
IsAncestor(par, a, n) ==
    IF par[n] = None THEN FALSE
    ELSE IF par[n] = a THEN TRUE
    ELSE IsAncestor(par, a, par[n])

Preorder(par) ==
    /\ par[1] = None
    /\ \A i \in 2..NumNodes :
          /\ par[i] # None
          /\ par[i] < i
          /\ par[i] = i - 1 \/ IsAncestor(par, par[i], i - 1)

RECURSIVE Sorted(_)
Sorted(S) ==
    IF S = {} THEN <<>>
    ELSE LET m == CHOOSE x \in S : \A y \in S : x <= y
         IN  <<m>> \o Sorted(S \ {m})

ChildrenOf(par) == [p \in Nodes |-> Sorted({c \in Nodes : par[c] = p})]

StartTrees == {par \in [Nodes -> {None} \cup Nodes] : Preorder(par)}

Init ==
    /\ Type \in [Nodes -> Types]
    /\ accepts \in SUBSET (Types \X Types)
    /\ parent \in StartTrees
    /\ Group = ChildrenOf(parent)
    /\ status = "ok"
    /\ lastOp = "none"
    /\ lastNode = None
    /\ oldParent = parent
    /\ oldGroup = Group
    /\ calls = 0
    /\ hasGroup = [n \in Nodes |-> TRUE]
    /\ lastRef = None
    /\ result = None

\* The result r of a call becomes the tree; the call and the tree it started
\* from are remembered.
Called(op, n, r) ==
    /\ parent' = r.parent
    /\ Group' = r.Group
    /\ status' = r.status
    /\ lastOp' = op
    /\ lastNode' = n
    /\ oldParent' = parent
    /\ oldGroup' = Group
    /\ calls' = calls + 1
    /\ UNCHANGED <<Type, accepts, hasGroup, lastRef, result>>

\* A call of moveUp on node n.  No call follows one that never returns.
MoveUp(n) ==
    /\ status # "hang"
    /\ calls < MaxCalls
    /\ Called("moveUp", n, moveUp(Tree(parent, Group), n))

\* A call of moveDown on node n.
MoveDown(n) ==
    /\ status # "hang"
    /\ calls < MaxCalls
    /\ Called("moveDown", n, moveDown(Tree(parent, Group), n))

Next ==
    \/ \E n \in Nodes : MoveUp(n)
    \/ \E n \in Nodes : MoveDown(n)

Spec == Init /\ [][Next]_vars

----------------------------------------------------------------------------
\* The navigation as a specification of its own: getPrevious and getNext are
\* pure, so they are applied to every starting tree, every node and every
\* reference.  A node with children has a Group; a leaf may lack the attribute.
\* The navigation reads neither the types nor the eligibility.

InitNav ==
    /\ Type = [n \in Nodes |-> "Stage"]
    /\ accepts = {}
    /\ parent \in StartTrees
    /\ Group = ChildrenOf(parent)
    /\ hasGroup \in {hg \in [Nodes -> BOOLEAN] : \A n \in Nodes : Group[n] # <<>> => hg[n]}
    /\ status = "ok"
    /\ lastOp = "none"
    /\ lastNode = None
    /\ oldParent = parent
    /\ oldGroup = Group
    /\ calls = 0
    /\ lastRef = None
    /\ result = None

\* The call and what it returned are remembered; the tree is not touched.
Asked(op, n, ref, r) ==
    /\ lastOp' = op
    /\ lastNode' = n
    /\ lastRef' = ref
    /\ result' = r
    /\ UNCHANGED <<Type, accepts, parent, Group, status, oldParent, oldGroup, calls, hasGroup>>

\* A call n.getPrevious(ref), ref = None standing for the call without argument.
GetPrevious(n, ref) == Asked("getPrevious", n, ref, getPrevious(parent, Group, hasGroup, n, ref))

\* A call n.getNext(ref).
GetNext(n, ref) == Asked("getNext", n, ref, getNext(parent, Group, hasGroup, n, ref))

NextNav ==
    \/ \E n \in Nodes : \E ref \in Nodes \cup {None} : GetPrevious(n, ref)
    \/ \E n \in Nodes : \E ref \in Nodes \cup {None} : GetNext(n, ref)

SpecNav == InitNav /\ [][NextNav]_vars

----------------------------------------------------------------------------
\* Vocabulary of the properties.

\* the number of times n occurs in a children sequence
Count(seq, n) == Cardinality({i \in 1..Len(seq) : seq[i] = n})

\* the number of times n occurs in all the children sequences
Occurrences(grp, n) ==
    LET RECURSIVE Sum(_)
        Sum(S) == IF S = {} THEN 0
                  ELSE LET p == CHOOSE x \in S : TRUE IN Count(grp[p], n) + Sum(S \ {p})
    IN  Sum(Nodes)

\* a children sequence with the elements at positions i and j (0-based)
\* exchanged
Swap(seq, i, j) ==
    [k \in 1..Len(seq) |-> IF k = i + 1 THEN seq[j + 1] ELSE IF k = j + 1 THEN seq[i + 1] ELSE seq[k]]

\* a children sequence without the occurrences of n
Without(seq, n) == SelectSeq(seq, LAMBDA x : x # n)

\* the position (0-based) of n in a sequence where it occurs
IndexOf(seq, n) == FirstIndex(seq, n)

\* the nodes reached from n by 1 to k steps along the parent pointers
RECURSIVE Chain(_, _, _)
Chain(par, n, k) ==
    IF k = 0 \/ par[n] = None THEN {}
    ELSE {par[n]} \cup Chain(par, par[n], k - 1)

\* the number of places in all the children sequences
RECURSIVE Places(_, _)
Places(grp, k) == IF k = 0 THEN 0 ELSE Len(grp[k]) + Places(grp, k - 1)

\* the tree is well formed: every non-root node is in the children sequence of
\* exactly the node its parent pointer names, once; a root is in none; and no
\* node is its own ancestor.  (Every non-root node is in the sequence its
\* pointer names and there are as many places as non-root nodes, so no node is
\* anywhere else or twice.)
WellFormed(par, grp) ==
    /\ \A n \in Nodes : par[n] # None => n \in Range(grp[par[n]])
    /\ Places(grp, NumNodes) = Cardinality({n \in Nodes : par[n] # None})
    /\ \A n \in Nodes : n \notin Chain(par, n, NumNodes)

\* the last call was op on node n
Did(op, n) == lastOp = op /\ lastNode = n

\* the last call was made on a well-formed tree
OnTree == WellFormed(oldParent, oldGroup)

\* node n answers eligibleChild(t) with True
Accepts(n, t) == <<Type[n], t>> \in accepts

\* the first node accepting type t among p, p's parent, ... on a chain of
\* parent pointers that ends (None: there is none)
RECURSIVE NearestFrom(_, _, _, _)
NearestFrom(par, p, t, k) ==
    IF p = None \/ k = 0 THEN None
    ELSE IF Accepts(p, t) THEN p
    ELSE NearestFrom(par, par[p], t, k - 1)

NearestAccepting(par, p, t) == NearestFrom(par, p, t, NumNodes)

----------------------------------------------------------------------------
\* C1: n's parent pointer is p if and only if n is in p's children sequence,
\* for every node n and every node p, after any sequence of moves.
C1_ParentMatchesChildren ==
    \A n \in Nodes : \A p \in Nodes : (parent[n] = p) <=> (n \in Range(Group[p]))

\* C2: every node appears in at most one node's children sequence, and at
\* most once in that sequence.
C2_AtMostOnce ==
    \A n \in Nodes : Occurrences(Group, n) <= 1

\* C3: a call on a well-formed tree leaves every node that was in a children
\* sequence in exactly one children sequence.
C3_NoOrphan ==
    (lastOp # "none" /\ OnTree) =>
        \A n \in Nodes : Occurrences(oldGroup, n) = 1 => Occurrences(Group, n) = 1

\* C4: moveUp on C at index 0 of its parent A, where A has a parent G that
\* accepts C's type: C is no longer in A's children, C is in G's children
\* immediately before A, and the order of G's other children and of A's
\* remaining children is unchanged.
C4_HoistBeforeParent ==
    \A C \in Nodes : \A A \in Nodes : \A G \in Nodes :
        ( /\ Did("moveUp", C)
          /\ oldParent[C] = A
          /\ OnTree
          /\ IndexOf(oldGroup[A], C) = 0
          /\ oldParent[A] = G
          /\ Accepts(G, Type[C]) )
        => /\ status = "ok"
           /\ C \notin Range(Group[A])
           /\ Group[A] = Tail(oldGroup[A])
           /\ \E i \in 1..(Len(Group[G]) - 1) : Group[G][i] = C /\ Group[G][i + 1] = A
           /\ Without(Group[G], C) = oldGroup[G]

\* C4 witness: a first child with younger siblings was hoisted before its
\* parent, which was not the first child of the grandparent.
C4_Witness ==
    \E C \in Nodes : \E A \in Nodes : \E G \in Nodes :
        /\ Did("moveUp", C)
        /\ oldParent[C] = A
        /\ OnTree
        /\ IndexOf(oldGroup[A], C) = 0
        /\ oldParent[A] = G
        /\ Accepts(G, Type[C])
        /\ Len(oldGroup[A]) > 1
        /\ IndexOf(oldGroup[G], A) > 0
        /\ C \in Range(Group[G])

\* C5: moveDown on N at index i of its parent P, not the last child,
\* exchanges the children at i and i+1 of P and changes nothing else,
\* whatever the eligibility predicate answers.
C5_SwapDownOnly ==
    \A N \in Nodes : \A P \in Nodes :
        ( /\ Did("moveDown", N)
          /\ oldParent[N] = P
          /\ OnTree
          /\ IndexOf(oldGroup[P], N) < Len(oldGroup[P]) - 1 )
        => LET i == IndexOf(oldGroup[P], N)
           IN  /\ status = "ok"
               /\ Group = [oldGroup EXCEPT ![P] = Swap(@, i, i + 1)]
               /\ parent = oldParent

\* C5 witness: X of [X, Y, Z] was moved down, giving [Y, X, Z], with Y
\* accepting X's type.
C5_Witness ==
    \E N \in Nodes : \E P \in Nodes :
        /\ Did("moveDown", N)
        /\ oldParent[N] = P
        /\ OnTree
        /\ Len(oldGroup[P]) = 3
        /\ IndexOf(oldGroup[P], N) = 0
        /\ IndexOf(Group[P], N) = 1
        /\ Accepts(At(oldGroup[P], 1), Type[N])

\* C6: moveUp on N at index i > 0 of its parent P, the preceding sibling S
\* accepting N's type: N is not in P's children, N is the last element of S's
\* children, S's earlier children are unchanged, and N's parent pointer is S.
C6_MergeIntoPrevious ==
    \A N \in Nodes : \A P \in Nodes :
        ( /\ Did("moveUp", N)
          /\ oldParent[N] = P
          /\ OnTree
          /\ IndexOf(oldGroup[P], N) > 0
          /\ Accepts(At(oldGroup[P], IndexOf(oldGroup[P], N) - 1), Type[N]) )
        => LET S == At(oldGroup[P], IndexOf(oldGroup[P], N) - 1)
           IN  /\ status = "ok"
               /\ N \notin Range(Group[P])
               /\ Group[S] = Append(oldGroup[S], N)
               /\ parent[N] = S

\* C6 witness: a node was merged into a preceding sibling that had a child.
C6_Witness ==
    \E N \in Nodes : \E P \in Nodes :
        /\ Did("moveUp", N)
        /\ oldParent[N] = P
        /\ OnTree
        /\ IndexOf(oldGroup[P], N) > 0
        /\ Accepts(At(oldGroup[P], IndexOf(oldGroup[P], N) - 1), Type[N])
        /\ oldGroup[At(oldGroup[P], IndexOf(oldGroup[P], N) - 1)] # <<>>
        /\ parent[N] = At(oldGroup[P], IndexOf(oldGroup[P], N) - 1)

\* C7: moveUp on N at index i > 0 of its parent P, the preceding sibling not
\* accepting N's type: the children at i-1 and i of P are exchanged and
\* nothing else changes.
C7_SwapUpOnly ==
    \A N \in Nodes : \A P \in Nodes :
        ( /\ Did("moveUp", N)
          /\ oldParent[N] = P
          /\ OnTree
          /\ IndexOf(oldGroup[P], N) > 0
          /\ ~Accepts(At(oldGroup[P], IndexOf(oldGroup[P], N) - 1), Type[N]) )
        => LET i == IndexOf(oldGroup[P], N)
           IN  /\ status = "ok"
               /\ Group = [oldGroup EXCEPT ![P] = Swap(@, i - 1, i)]
               /\ parent = oldParent

\* C7 witness: the third of three children was exchanged with the second.
C7_Witness ==
    \E N \in Nodes : \E P \in Nodes :
        /\ Did("moveUp", N)
        /\ oldParent[N] = P
        /\ OnTree
        /\ IndexOf(oldGroup[P], N) = 2
        /\ ~Accepts(At(oldGroup[P], 1), Type[N])
        /\ IndexOf(Group[P], N) = 1

\* C8: moveDown on N, the last child of its parent P (P having any number of
\* children), some ancestor of P accepting N's type: N is removed from P's
\* children, P's other children keep their presence and order, N is appended
\* as last child of the nearest accepting ancestor of P, and N's parent
\* pointer is that ancestor.
C8_LastChildToAncestor ==
    \A N \in Nodes : \A P \in Nodes :
        ( /\ Did("moveDown", N)
          /\ oldParent[N] = P
          /\ OnTree
          /\ IndexOf(oldGroup[P], N) = Len(oldGroup[P]) - 1
          /\ NearestAccepting(oldParent, oldParent[P], Type[N]) \in Nodes )
        => LET H == NearestAccepting(oldParent, oldParent[P], Type[N])
           IN  /\ Group[P] = SubSeq(oldGroup[P], 1, Len(oldGroup[P]) - 1)
               /\ Group[H] = Append(oldGroup[H], N)
               /\ parent[N] = H

\* C9: moveUp on N at index 0 of its parent P, P's parent not accepting N's
\* type but a higher ancestor accepting it: N is removed from P's children and
\* appended as last child of the nearest accepting ancestor, N's parent
\* pointer is that ancestor, and nothing else changes.
C9_FirstChildToAncestor ==
    \A N \in Nodes : \A P \in Nodes :
        ( /\ Did("moveUp", N)
          /\ oldParent[N] = P
          /\ OnTree
          /\ IndexOf(oldGroup[P], N) = 0
          /\ oldParent[P] # None
          /\ ~Accepts(oldParent[P], Type[N])
          /\ NearestAccepting(oldParent, oldParent[oldParent[P]], Type[N]) \in Nodes )
        => LET H == NearestAccepting(oldParent, oldParent[oldParent[P]], Type[N])
           IN  /\ status = "ok"
               /\ N \notin Range(Group[P])
               /\ Group = [[oldGroup EXCEPT ![P] = Tail(@)] EXCEPT ![H] = Append(@, N)]
               /\ parent = [oldParent EXCEPT ![N] = H]

\* C9 witness: a first child went past two rejecting ancestors to a higher
\* one.
C9_Witness ==
    \E N \in Nodes : \E P \in Nodes :
        /\ Did("moveUp", N)
        /\ oldParent[N] = P
        /\ OnTree
        /\ IndexOf(oldGroup[P], N) = 0
        /\ oldParent[P] # None
        /\ ~Accepts(oldParent[P], Type[N])
        /\ oldParent[oldParent[P]] # None
        /\ ~Accepts(oldParent[oldParent[P]], Type[N])
        /\ NearestAccepting(oldParent, oldParent[oldParent[P]], Type[N]) \in Nodes
        /\ parent[N] = NearestAccepting(oldParent, oldParent[oldParent[P]], Type[N])

\* C10: moveUp on B, the first child of its parent A, no ancestor of B above A
\* accepting B's type: A's children sequence and B's parent pointer are as
\* before the call; and when A is the only child of a root P, the whole tree is
\* unchanged.
C10_StaysFirstChild ==
    \A B \in Nodes : \A A \in Nodes :
        ( /\ Did("moveUp", B)
          /\ oldParent[B] = A
          /\ OnTree
          /\ IndexOf(oldGroup[A], B) = 0
          /\ NearestAccepting(oldParent, oldParent[A], Type[B]) = None )
        => /\ status = "ok"
           /\ Group[A] = oldGroup[A]
           /\ parent[B] = A
           /\ \A P \in Nodes :
                (oldParent[A] = P /\ oldParent[P] = None /\ oldGroup[P] = <<A>>)
                => (Group = oldGroup /\ parent = oldParent)

\* C10 witness: the call on B reshaped the tree above (A moved among its own
\* siblings or into one) while B stayed the first child of A.
C10_Witness ==
    \E B \in Nodes : \E A \in Nodes :
        /\ Did("moveUp", B)
        /\ oldParent[B] = A
        /\ OnTree
        /\ IndexOf(oldGroup[A], B) = 0
        /\ NearestAccepting(oldParent, oldParent[A], Type[B]) = None
        /\ Group # oldGroup
        /\ parent[A] # oldParent[A]
        /\ At(Group[A], 0) = B

----------------------------------------------------------------------------
\* C11: a call of moveUp or moveDown on a node whose parent pointer is absent
\* (a root) returns normally and changes nothing: every children sequence and
\* every parent pointer is what it was before the call.
C11_RootUntouched ==
    \A n \in Nodes :
        ( /\ lastOp \in {"moveUp", "moveDown"}
          /\ lastNode = n
          /\ oldParent[n] = None )
        => /\ status = "ok"
           /\ Group = oldGroup
           /\ parent = oldParent

\* C11 witness: moveUp was called on the root of a tree that earlier calls had
\* already reshaped, the root having children.
C11_Witness ==
    \E n \in Nodes :
        /\ Did("moveUp", n)
        /\ oldParent[n] = None
        /\ oldGroup[n] # <<>>
        /\ calls >= 2
        /\ Group = oldGroup
        /\ parent = oldParent

----------------------------------------------------------------------------
\* Vocabulary of the navigation claims.

\* the last call was op on node n with reference ref (None: no argument)
Asks(op, n, ref) == lastOp = op /\ lastNode = n /\ lastRef = ref

\* B is the child right after A in P's children sequence
Adjacent(P, A, B) ==
    \E i \in 1..(Len(Group[P]) - 1) : Group[P][i] = A /\ Group[P][i + 1] = B

\* L is the last child of P
LastChild(P, L) == Group[P] # <<>> /\ Group[P][Len(Group[P])] = L

----------------------------------------------------------------------------
\* C12: for every node P and every two children A, B of P with A immediately
\* before B, getNext on P with reference A returns B and getPrevious on P with
\* reference B returns A; and A.getNext() and B.getPrevious() without a
\* reference return B and A when their parent pointers are P.
C12_AdjacentSiblings ==
    \A P \in Nodes : \A A \in Nodes : \A B \in Nodes :
        Adjacent(P, A, B) =>
            /\ Asks("getNext", P, A) => result = B
            /\ Asks("getPrevious", P, B) => result = A
            /\ (Asks("getNext", A, None) /\ parent[A] = P) => result = B
            /\ (Asks("getPrevious", B, None) /\ parent[B] = P) => result = A

\* C12 witness: A.getNext() without a reference returned the following sibling
\* B, in the middle of the three children of a node P that is not the root.
C12_Witness ==
    \E P \in Nodes : \E A \in Nodes : \E B \in Nodes :
        /\ Adjacent(P, A, B)
        /\ Asks("getNext", A, None)
        /\ parent[A] = P
        /\ parent[P] # None
        /\ Len(Group[P]) = 3
        /\ Group[P][2] = A
        /\ result = B

----------------------------------------------------------------------------
\* the item following n along the axis: the child after n in its parent's
\* children sequence, or, n being the last child, the item following the
\* parent; None at the root
RECURSIVE ItemAfter(_, _)
ItemAfter(n, k) ==
    IF k = 0 \/ parent[n] = None THEN None
    ELSE IF \E B \in Nodes : Adjacent(parent[n], n, B)
         THEN CHOOSE B \in Nodes : Adjacent(parent[n], n, B)
         ELSE ItemAfter(parent[n], k - 1)

----------------------------------------------------------------------------
\* C14: getPrevious(reference) and getNext(reference) called on a node whose
\* children sequence does not contain the reference (an empty sequence
\* included) return what the same call with the same reference on the node's
\* parent returns, absent when the node has no parent, and never the node
\* itself.
C14_DelegatesWhenNotFound ==
    \A n \in Nodes : \A ref \in Nodes :
        (lastNode = n /\ lastRef = ref /\ ref \notin Range(Group[n]))
        => /\ lastOp = "getPrevious" =>
                /\ result # n
                /\ result = IF parent[n] = None THEN None
                            ELSE getPrevious(parent, Group, hasGroup, parent[n], ref)
           /\ lastOp = "getNext" =>
                /\ result # n
                /\ result = IF parent[n] = None THEN None
                            ELSE getNext(parent, Group, hasGroup, parent[n], ref)

----------------------------------------------------------------------------
\* C15: a call of moveUp on N, a child of P that is not first and whose
\* preceding sibling S accepts N's type (the merge case), changes only P's
\* children sequence, S's children sequence and N's parent pointer: every
\* other children sequence and every other parent pointer is what it was, so
\* P keeps its position among its own siblings and its own parent pointer,
\* also when P has a parent and is not that parent's first child.
C15_MergeTouchesOnlyThree ==
    \A N \in Nodes : \A P \in Nodes :
        ( /\ Did("moveUp", N)
          /\ oldParent[N] = P
          /\ OnTree
          /\ IndexOf(oldGroup[P], N) > 0
          /\ Accepts(At(oldGroup[P], IndexOf(oldGroup[P], N) - 1), Type[N]) )
        => LET S == At(oldGroup[P], IndexOf(oldGroup[P], N) - 1)
           IN  /\ status = "ok"
               /\ \A m \in Nodes \ {P, S} : Group[m] = oldGroup[m]
               /\ \A m \in Nodes \ {N} : parent[m] = oldParent[m]

----------------------------------------------------------------------------
\* C16: a call of moveDown on N, the last child of P, when no ancestor of P
\* accepts N's type and P has a parent: N stays in P's children sequence at
\* the same index, and the tree after the call (every children sequence and
\* every parent pointer, and the way the call ended) is the one a call of
\* moveUp on P produces from the same starting tree.
C16_FallbackIsMoveUpOfParent ==
    \A N \in Nodes : \A P \in Nodes :
        ( /\ Did("moveDown", N)
          /\ oldParent[N] = P
          /\ OnTree
          /\ IndexOf(oldGroup[P], N) = Len(oldGroup[P]) - 1
          /\ oldParent[P] # None
          /\ NearestAccepting(oldParent, oldParent[P], Type[N]) = None )
        => LET up == moveUp(Tree(oldParent, oldGroup), P)
           IN  /\ N \in Range(Group[P])
               /\ IndexOf(Group[P], N) = IndexOf(oldGroup[P], N)
               /\ parent = up.parent
               /\ Group = up.Group
               /\ status = up.status
               /\ status = "ok"

\* C16 witness: the call of moveDown on the last child N of P moved P (P left
\* its place among its own siblings), N staying the last child of P.
C16_Witness ==
    \E N \in Nodes : \E P \in Nodes :
        /\ Did("moveDown", N)
        /\ oldParent[N] = P
        /\ OnTree
        /\ IndexOf(oldGroup[P], N) = Len(oldGroup[P]) - 1
        /\ oldParent[P] # None
        /\ NearestAccepting(oldParent, oldParent[P], Type[N]) = None
        /\ Group[oldParent[P]] # oldGroup[oldParent[P]]
        /\ Group[P] = oldGroup[P]
        /\ status = "ok"

----------------------------------------------------------------------------
\* C17: every call of moveUp or moveDown returns after finitely many steps, in
\* every tree state reachable from a well-formed finite tree by moves: no walk
\* up the ancestors goes on for ever.
C17_EveryCallReturns == status # "hang"

----------------------------------------------------------------------------
\* the nodes reached from the nodes of S by 1 to k steps along the children
\* sequences
RECURSIVE Below(_, _, _)
Below(grp, S, k) ==
    LET kids == UNION {Range(grp[n]) : n \in S}
    IN  IF k = 0 \/ kids = {} THEN {} ELSE kids \cup Below(grp, kids, k - 1)

\* C18: after any sequence of moveUp/moveDown calls on a well-formed tree the
\* structure is still one rooted tree: no node is in its own children
\* sequence, no node is its own ancestor (through the parent pointers or
\* through the children sequences), and every node is reached from the root
\* through the children sequences -- also when a type accepts its own type.
C18_OneRootedTree ==
    /\ \A n \in Nodes : n \notin Range(Group[n])
    /\ \A n \in Nodes : n \notin Chain(parent, n, NumNodes)
    /\ \A n \in Nodes : n \notin Below(Group, {n}, NumNodes)
    /\ \A n \in Nodes :
            parent[n] # None => \E r \in Nodes : parent[r] = None /\ n \in Below(Group, {r}, NumNodes)

----------------------------------------------------------------------------
\* every child's type is accepted by the node whose children sequence holds it
TypeFits(grp) == \A p \in Nodes : \A c \in Range(grp[p]) : Accepts(p, Type[c])

\* C19: if every child's type is accepted by the node containing it, the same
\* holds after the next call of moveUp or moveDown -- hence, from an initial
\* tree where it holds, after any sequence of calls: a child is only ever put
\* in the children sequence of a node whose eligibleChild accepted its type.
C19_TypesStayAccepted == TypeFits(oldGroup) => TypeFits(Group)

\* C19 witness: at the second call or later, a call on a tree where every
\* child's type is accepted moved a node into the children sequence of another
\* node, one that does not accept every type.
C19_Witness ==
    \E n \in Nodes : \E p \in Nodes :
        /\ lastNode = n
        /\ TypeFits(oldGroup)
        /\ n \notin Range(oldGroup[p])
        /\ n \in Range(Group[p])
        /\ \E t \in Types : ~Accepts(p, t)
        /\ calls >= 2

----------------------------------------------------------------------------
\* C20: for a node X that is not the last child of its parent P and whose
\* following sibling Y does not accept X's type, a call of moveDown on X
\* followed by a call of moveUp on X restores exactly the starting tree (every
\* children sequence and every parent pointer); when Y accepts X's type the
\* pair is not a round trip: moveUp then moves X into Y's children.
\* Stated on the step that makes the second call: `oldParent`, `oldGroup` are
\* the tree before the moveDown, the primed variables the tree after the moveUp.
C20_DownThenUpRestores ==
    [][ \A X \in Nodes : \A P \in Nodes :
            ( /\ Did("moveDown", X)
              /\ oldParent[X] = P
              /\ OnTree
              /\ IndexOf(oldGroup[P], X) < Len(oldGroup[P]) - 1
              /\ lastOp' = "moveUp"
              /\ lastNode' = X
              /\ calls' = calls + 1 )
            => LET Y == At(oldGroup[P], IndexOf(oldGroup[P], X) + 1)
               IN  /\ status' = "ok"
                   /\ ~Accepts(Y, Type[X]) => (Group' = oldGroup /\ parent' = oldParent)
                   /\ Accepts(Y, Type[X]) =>
                        /\ X \in Range(Group'[Y])
                        /\ parent'[X] = Y
                        /\ Group' # oldGroup
      ]_vars

\* C20 witness: the state after the round trip.  Two calls were made, the
\* second a moveUp on X that swapped X back in front of a sibling Y not
\* accepting X's type; the tree is a starting tree, and the tree before the
\* moveUp is the one moveDown on X makes of it.
C20_Witness ==
    \E X \in Nodes : \E P \in Nodes :
        /\ Did("moveUp", X)
        /\ calls = 2
        /\ oldParent[X] = P
        /\ OnTree
        /\ IndexOf(oldGroup[P], X) > 0
        /\ ~Accepts(At(oldGroup[P], IndexOf(oldGroup[P], X) - 1), Type[X])
        /\ Group[P] = Swap(oldGroup[P], IndexOf(oldGroup[P], X) - 1, IndexOf(oldGroup[P], X))
        /\ parent \in StartTrees
        /\ Group = ChildrenOf(parent)
        /\ moveDown(Tree(parent, Group), X) = Tree(oldParent, oldGroup)

====
